---- MODULE Spec2Model ----
(***************************************************************************)
(* State-machine model of the BluetoothScreen component                    *)
(* (mobile-app/app/(tabs)/bluetooth.tsx).                                  *)
(*                                                                         *)
(* The screen runs on the single UI thread: every handler runs to its next *)
(* `await` without interleaving, so each action below is one such segment: *)
(* a button press up to the first suspension, or the continuation that     *)
(* runs when a suspended native call resolves or rejects.                  *)
(*                                                                         *)
(* The BLE client (react-native-ble-plx) and the OS are the environment:   *)
(* the client keeps one scan at a time, the set of open connections and    *)
(* the subscriptions it handed out; its promises resolve or reject         *)
(* nondeterministically.                                                   *)
(***************************************************************************)
EXTENDS Integers, Sequences, FiniteSets, Bags, TLC

(* ------------------------------ bounds -------------------------------- *)
\* startScan calls suspended on the permission request at the same time
MaxPendingScans == 2
\* connectToDevice calls in flight at the same time
MaxConnects == 2

(* ----------------------------- universe ------------------------------- *)
Devs == {"d1", "d2"}
NoDevice == "null"

\* Characteristic flags (isWritableWithResponse, isWritableWithoutResponse)
RO == [resp |-> FALSE, noResp |-> FALSE]
WR == [resp |-> TRUE, noResp |-> FALSE]
WN == [resp |-> FALSE, noResp |-> TRUE]

\* GATT table of each peripheral: a sequence of services, each a sequence
\* of characteristics.  d1: the first writable characteristic is the third
\* of the second service, and a later service has another one.  d2: nothing
\* writable anywhere.
Gatt(dev) ==
    IF dev = "d1"
    THEN << <<RO, RO>>, <<RO, RO, WN, WR>>, <<WR>> >>
    ELSE << <<RO>>, <<>>, <<RO, RO>> >>

\* Payload texts the user can type, as sequences of UTF-16 code units:
\* "", "Man" followed by U+00FF, and the euro sign (outside Latin-1).
Payloads == { <<>>, <<77, 97, 110, 255>>, <<8364>> }

(* --------------------------- pure helpers ----------------------------- *)
Range(s) == { s[i] : i \in 1..Len(s) }

\* Variant of addDevice that puts a new identifier at the head of the list.
addDeviceAtHead(prev, id) ==
    IF \E i \in 1..Len(prev) : prev[i] = id THEN prev ELSE << id >> \o prev

\* Variant of addDevice without the identifier lookup.
addDeviceNoLookup(prev, id) == Append(prev, id)

\* The updater given to setDevices in the scan callback: keep the list when
\* an entry has the reported identifier, else append the device at the end.
addDevice(prev, id) ==
    IF \E i \in 1..Len(prev) : prev[i] = id THEN prev ELSE Append(prev, id)

\* Variant of permissionsGranted whose catch block returns true.
permissionsGrantedCatchTrue(g) ==
    IF g.failed THEN TRUE ELSE g.loc \/ g.scan

\* requestAndroidPermissions: the value the promise resolves to for the
\* result of PermissionsAndroid.requestMultiple.  `g` records whether the
\* request rejected (failed) and whether ACCESS_FINE_LOCATION and
\* BLUETOOTH_SCAN came back GRANTED; a rejection is caught and gives false.
\* BLUETOOTH_CONNECT is requested too, but its result is never read.
permissionsGranted(g) ==
    IF g.failed THEN FALSE ELSE g.loc \/ g.scan

PermResults ==
    [failed : {FALSE}, loc : BOOLEAN, scan : BOOLEAN]
      \cup {[failed |-> TRUE, loc |-> FALSE, scan |-> FALSE]}

\* Variant of isWritable that reads isWritableWithResponse alone.
isWritableWithResponseOnly(c) == c.resp

\* The test of the inner loop of sendPayload.
isWritable(c) == c.resp \/ c.noResp

\* Index of the first characteristic of `chars` that passes the test, 0 when
\* the inner loop runs to its end.
firstWritable(chars) ==
    IF \E j \in 1..Len(chars) : isWritable(chars[j])
    THEN CHOOSE j \in 1..Len(chars) :
            /\ isWritable(chars[j])
            /\ \A k \in 1..(j - 1) : ~isWritable(chars[k])
    ELSE 0

\* Variant of hasNextService that ends the outer loop one service early.
hasNextServiceOffByOne(services, i) == i + 1 < Len(services)

\* The outer loop of sendPayload moves on to the next service while one is
\* left.
hasNextService(services, i) == i < Len(services)

\* base-64's encode (imported as btoa): it throws for a code unit above
\* 0xFF; otherwise three bytes give four symbols of the alphabet below and
\* the tail is padded with "=".
B64Alphabet ==
    << "A","B","C","D","E","F","G","H","I","J","K","L","M","N","O","P",
       "Q","R","S","T","U","V","W","X","Y","Z","a","b","c","d","e","f",
       "g","h","i","j","k","l","m","n","o","p","q","r","s","t","u","v",
       "w","x","y","z","0","1","2","3","4","5","6","7","8","9","+","/" >>
B64(n) == B64Alphabet[n + 1]

btoaThrows(text) == \E i \in 1..Len(text) : text[i] > 255

RECURSIVE btoa(_)
btoa(text) ==
    IF Len(text) = 0 THEN <<>>
    ELSE IF Len(text) = 1 THEN
        << B64(text[1] \div 4), B64((text[1] % 4) * 16), "=", "=" >>
    ELSE IF Len(text) = 2 THEN
        << B64(text[1] \div 4),
           B64((text[1] % 4) * 16 + text[2] \div 16),
           B64((text[2] % 16) * 4), "=" >>
    ELSE
        << B64(text[1] \div 4),
           B64((text[1] % 4) * 16 + text[2] \div 16),
           B64((text[2] % 16) * 4 + text[3] \div 64),
           B64(text[3] % 64) >> \o btoa(SubSeq(text, 4, Len(text)))

(* ------------------------------- state -------------------------------- *)
VARIABLES
    platform,          \* Platform.OS
    mounted,           \* the screen is mounted (its handlers can be invoked)
    managerRef,        \* managerRef.current is a client (TRUE) or null (FALSE)
    devices,           \* useState: the device list, as device identifiers
    scanning,          \* useState: the scanning flag
    connected,         \* useState: the connected device, or NoDevice for null
    payload,           \* useState: the payload text
    scanSubscription,  \* scanSubscription.current: "null", or the state of
                       \* the subscription it holds: "live" or "removed"
    orphaned,          \* a subscription was overwritten in the ref unremoved
    clientScan,        \* client: it is running a scan (that of the latest
                       \* startDeviceScan, whose subscription the ref holds)
    clientConns,       \* client: devices with an open connection
    destroyed,         \* client: destroy() was called
    startPending,      \* startScan calls suspended on the permission request
    conns,             \* connectToDevice calls in flight (a bag)
    send,              \* the sendPayload call in flight, or its outcome
    last               \* what the last step was and what it showed

vars == << platform, mounted, managerRef, devices, scanning, connected,
           payload, scanSubscription, orphaned, clientScan, clientConns, destroyed, startPending, conns, send, last >>

screenVars == << devices, scanning, connected, payload >>
scanVars == << scanSubscription, orphaned, clientScan >>

\* A connectToDevice call in flight: the await it is suspended on, its
\* device, and whether the client was still scanning when the call asked
\* it to open the connection (after its stopScan).
ConnTask(pc, dev, scanLeft) ==
    [pc |-> pc, dev |-> dev, scanLeft |-> scanLeft]
One(t) == SetToBag({t})

IdleSend ==
    [pc |-> "idle", mgr |-> FALSE, dev |-> NoDevice, text |-> <<>>,
     servicesCalled |-> FALSE, enumerated |-> {}, svc |-> 0, chr |-> 0,
     writes |-> 0, data |-> <<>>, notice |-> "none", cause |-> "none"]

\* The record of a step: its handler, the alert it showed ("none" when it
\* showed none), whether an error escaped the handler, the device it was
\* about, and, for the steps that stop the scan, whether the client was
\* scanning when the step began.
StepOnScan(op, alert, fault, dev, scanWas) ==
    [op |-> op, alert |-> alert, fault |-> fault, dev |-> dev,
     scanWas |-> scanWas]
Step(op, alert, fault, dev) == StepOnScan(op, alert, fault, dev, FALSE)

\* Variant of ensureManagerAlert that returns without alerting.
ensureManagerSilent(mgr) == "none"

\* ensureManager: the alert it shows.
ensureManagerAlert(mgr) == IF mgr THEN "none" ELSE "BLE no disponible"

\* The part of the state stopScan and the unmount cleanup work on; threw
\* tells whether the function ended by throwing.
Cur ==
    [managerRef |-> managerRef, scanning |-> scanning,
     scanSubscription |-> scanSubscription, clientScan |-> clientScan,
     destroyed |-> destroyed, threw |-> FALSE]

\* scanSubscription.current?.remove(): nothing for null, and removing a
\* removed subscription again changes nothing.
removeSub(h) == IF h = "live" THEN "removed" ELSE h

\* Variant of stopScanFlag that toggles the flag.
stopScanFlagToggle(flag) == ~flag

\* setScanning(false) in stopScan
stopScanFlag(flag) == FALSE

\* Variant of stopScan that never calls manager.stopDeviceScan.
stopScanKeepsClientScan(s) ==
    IF ~s.managerRef THEN s
    ELSE [s EXCEPT !.scanning = stopScanFlag(s.scanning),
                   !.scanSubscription = removeSub(s.scanSubscription)]

\* stopScan: returns at once without a client; else stops the client's
\* scan, clears the flag and removes the stored subscription, if any.
stopScan(s) ==
    IF ~s.managerRef THEN s
    ELSE [s EXCEPT !.clientScan = FALSE,
                   !.scanning = stopScanFlag(s.scanning),
                   !.scanSubscription = removeSub(s.scanSubscription)]

\* Variant of cleanup that leaves the stored subscription alone.
cleanupKeepsSubscription(s) ==
    [s EXCEPT !.clientScan = IF s.managerRef THEN FALSE ELSE s.clientScan,
              !.destroyed = s.managerRef \/ s.destroyed,
              !.managerRef = FALSE]

\* The cleanup returned by the mount effect: removes the stored
\* subscription, if any, destroys the client, if any (destroy ends the
\* client's scan; what it throws is swallowed), and nulls managerRef.
cleanup(s) ==
    [s EXCEPT !.scanSubscription = removeSub(s.scanSubscription),
              !.clientScan = IF s.managerRef THEN FALSE ELSE s.clientScan,
              !.destroyed = s.managerRef \/ s.destroyed,
              !.managerRef = FALSE]

\* State after the mount effect: the client was constructed or construction
\* threw; everything else is at its useState / useRef initial value.
Init ==
    /\ platform \in {"android", "ios"}
    /\ mounted = TRUE
    /\ managerRef \in BOOLEAN
    /\ devices = <<>>
    /\ scanning = FALSE
    /\ connected = NoDevice
    /\ payload = <<>>
    /\ scanSubscription = "null"
    /\ orphaned = FALSE
    /\ clientScan = FALSE
    /\ clientConns = {}
    /\ destroyed = FALSE
    /\ startPending = 0
    /\ conns = EmptyBag
    /\ send = IdleSend
    /\ last = Step("mount", "none", FALSE, NoDevice)

(* ------------------------------ scanning ------------------------------ *)
\* startScan after the permission check passed: clear the list, set the
\* flag, start the client's scan and store the subscription it returns.
\* The client runs one scan at a time, so a new scan supersedes the one it
\* was running; a destroyed client hands out a handle but scans nothing.
\* The handle the ref held is lost: if it was not removed it never will be.
\* State setters of an unmounted component do nothing.
startScanBody ==
    /\ devices' = IF mounted THEN <<>> ELSE devices
    /\ scanning' = IF mounted THEN TRUE ELSE scanning
    /\ orphaned' = (orphaned \/ scanSubscription = "live")
    /\ scanSubscription' = "live"
    /\ clientScan' = ~destroyed

\* The scan button while it reads "Escanear" (scanning is false): startScan
\* up to its await.  Where no runtime grant exists the permission promise
\* is already resolved with true, so the body runs before any other event.
StartScanPress ==
    /\ mounted
    /\ ~scanning
    /\ IF ~managerRef THEN
            /\ last' = Step("startScan", ensureManagerAlert(managerRef), FALSE,
                            NoDevice)
            /\ UNCHANGED << devices, scanning, scanVars, startPending >>
       ELSE IF platform = "android" THEN
            /\ startPending < MaxPendingScans
            /\ startPending' = startPending + 1
            /\ last' = Step("startScan", "none", FALSE, NoDevice)
            /\ UNCHANGED << devices, scanning, scanVars >>
       ELSE
            /\ startScanBody
            /\ last' = Step("startScan", "none", FALSE, NoDevice)
            /\ UNCHANGED startPending
    /\ UNCHANGED << platform, mounted, managerRef, connected, payload,
                    clientConns, destroyed, conns, send >>

\* PermissionsAndroid.requestMultiple settles with result g and a suspended
\* startScan resumes: without a grant it alerts and returns.
PermissionResult(g) ==
    /\ startPending > 0
    /\ startPending' = startPending - 1
    /\ IF permissionsGranted(g) THEN
            /\ startScanBody
            /\ last' = Step("permission", "none", FALSE, NoDevice)
       ELSE
            /\ last' = Step("permission", "Permisos", FALSE, NoDevice)
            /\ UNCHANGED << devices, scanning, scanVars >>
    /\ UNCHANGED << platform, mounted, managerRef, connected, payload,
                    clientConns, destroyed, conns, send >>

\* The client delivers events of the scan it runs to that scan's listener
\* while its subscription is not removed.
Listening == clientScan /\ scanSubscription = "live"

\* Scan callback with a device (null, or without id, is ignored).
Discovery(dev) ==
    /\ Listening
    /\ devices' = IF mounted /\ dev # NoDevice
                  THEN addDevice(devices, dev) ELSE devices
    /\ last' = Step("discovery", "none", FALSE, dev)
    /\ UNCHANGED << platform, mounted, managerRef, scanning, connected,
                    payload, scanVars, clientConns, destroyed, startPending,
                    conns, send >>

\* Variant of ScanError that leaves the scanning flag set.
ScanErrorKeepsFlag ==
    /\ Listening
    /\ clientScan' = FALSE
    /\ last' = Step("scanError", "none", FALSE, NoDevice)
    /\ UNCHANGED << platform, mounted, managerRef, devices, scanning,
                    connected, payload, scanSubscription, orphaned,
                    clientConns, destroyed, startPending, conns, send >>

\* Scan callback with an error: logged, flag cleared.  The failed scan is
\* over at the client; its subscription is left as it is.
ScanError ==
    /\ Listening
    /\ scanning' = IF mounted THEN FALSE ELSE scanning
    /\ clientScan' = FALSE
    /\ last' = Step("scanError", "none", FALSE, NoDevice)
    /\ UNCHANGED << platform, mounted, managerRef, devices, connected,
                    payload, scanSubscription, orphaned, clientConns, destroyed, startPending, conns, send >>

\* The scan button while it reads "Detener" (scanning is true): stopScan.
StopScanPress ==
    /\ mounted
    /\ scanning
    /\ LET r == stopScan(Cur) IN
        /\ scanning' = r.scanning
        /\ clientScan' = r.clientScan
        /\ scanSubscription' = r.scanSubscription
    /\ last' = StepOnScan("stopScan", "none", stopScan(Cur).threw, NoDevice,
                          clientScan)
    /\ UNCHANGED << platform, mounted, managerRef, devices, connected,
                    payload, orphaned, clientConns,
                    destroyed, startPending, conns, send >>

\* The screen unmounts: the effect's cleanup runs.  Suspended calls stay
\* suspended and resume later.
Unmount ==
    /\ mounted
    /\ mounted' = FALSE
    /\ LET r == cleanup(Cur) IN
        /\ scanSubscription' = r.scanSubscription
        /\ clientScan' = r.clientScan
        /\ destroyed' = r.destroyed
        /\ managerRef' = r.managerRef
    /\ last' = StepOnScan("unmount", "none", cleanup(Cur).threw, NoDevice,
                          clientScan)
    /\ UNCHANGED << platform, screenVars, orphaned, clientConns, startPending, conns, send >>

(* ----------------------------- connecting ----------------------------- *)
\* "Conectar" on a row of the list: connectToDevice(item) up to its first
\* await.  stopScan runs inside the try, then the client is asked to open
\* the connection.
ConnectPress(dev) ==
    /\ mounted
    /\ dev \in Range(devices)
    /\ IF ~managerRef THEN
            /\ last' = Step("connect", ensureManagerAlert(managerRef), FALSE,
                            dev)
            /\ UNCHANGED << scanning, clientScan, scanSubscription, conns >>
       ELSE LET r == stopScan(Cur) IN
            /\ scanning' = r.scanning
            /\ clientScan' = r.clientScan
            /\ scanSubscription' = r.scanSubscription
            /\ IF r.threw THEN
                    /\ last' = StepOnScan("connect", "Error", FALSE, dev,
                                          clientScan)
                    /\ UNCHANGED conns
               ELSE
                    /\ BagCardinality(conns) < MaxConnects
                    /\ conns' = conns (+) One(ConnTask("connect", dev,
                                                      r.clientScan))
                    /\ last' = StepOnScan("connect", "none", FALSE, dev,
                                          clientScan)
    /\ UNCHANGED << platform, mounted, managerRef, devices, connected,
                    payload, orphaned, clientConns, destroyed, startPending,
                    send >>

\* manager.connectToDevice settles for call t.  Resolved: the connection is
\* open at the client and discovery is requested.  Rejected: caught, alert.
\* A destroyed client rejects every call.
ConnectSettled(t, ok) ==
    /\ BagIn(t, conns)
    /\ t.pc = "connect"
    /\ ok => ~destroyed
    /\ IF ok THEN
            /\ clientConns' = clientConns \cup {t.dev}
            /\ conns' = (conns (-) One(t))
                            (+) One(ConnTask("discover", t.dev, t.scanLeft))
            /\ last' = Step("connectSettled", "none", FALSE, t.dev)
       ELSE
            /\ conns' = conns (-) One(t)
            /\ last' = Step("connectSettled", "Error", FALSE, t.dev)
            /\ UNCHANGED clientConns
    /\ UNCHANGED << platform, mounted, managerRef, screenVars, scanVars,
                    destroyed, startPending, send >>

\* Variant of DiscoverSettled that stores the device whether or not
\* discovery succeeded.
DiscoverSettledStoresAnyway(t, ok) ==
    /\ BagIn(t, conns)
    /\ t.pc = "discover"
    /\ ok => ~destroyed
    /\ conns' = conns (-) One(t)
    /\ connected' = IF mounted THEN t.dev ELSE connected
    /\ last' = Step("discoverSettled", IF ok THEN "Conectado" ELSE "Error",
                    FALSE, t.dev)
    /\ UNCHANGED << platform, mounted, managerRef, devices, scanning,
                    payload, scanVars, clientConns, destroyed, startPending,
                    send >>

\* d.discoverAllServicesAndCharacteristics settles for call t.  Resolved:
\* the device is stored and the success alert shown.  Rejected: caught,
\* alert; the connection that was opened is left open.
DiscoverSettled(t, ok) ==
    /\ BagIn(t, conns)
    /\ t.pc = "discover"
    /\ ok => ~destroyed
    /\ conns' = conns (-) One(t)
    /\ IF ok THEN
            /\ connected' = IF mounted THEN t.dev ELSE connected
            /\ last' = Step("discoverSettled", "Conectado", FALSE, t.dev)
       ELSE
            /\ last' = Step("discoverSettled", "Error", FALSE, t.dev)
            /\ UNCHANGED connected
    /\ UNCHANGED << platform, mounted, managerRef, devices, scanning,
                    payload, scanVars, clientConns, destroyed, startPending,
                    send >>

\* The second button.  With a device connected its handler evaluates
\* `manager`, which no enclosing scope binds (the name is local to the
\* functions above): a ReferenceError leaves the handler before the client
\* is called and before setConnected(null).  With no device connected the
\* handler does nothing.
disconnectThrows(conn) == conn # NoDevice

DisconnectPress ==
    /\ mounted
    /\ last' = Step("disconnect", "none", disconnectThrows(connected),
                    connected)
    /\ UNCHANGED << platform, mounted, managerRef, screenVars, scanVars,
                    clientConns, destroyed, startPending, conns, send >>

\* onChangeText of the input: setPayload.
SetPayload(text) ==
    /\ mounted
    /\ text # payload
    /\ payload' = text
    /\ last' = Step("setPayload", "none", FALSE, NoDevice)
    /\ UNCHANGED << platform, mounted, managerRef, devices, scanning,
                    connected, scanVars, clientConns, destroyed,
                    startPending, conns, send >>

(* ------------------------------ sending ------------------------------- *)
\* Variant of sendPayloadEntry without the connection check.
sendPayloadEntryNoConnectionCheck(mgr, conn) ==
    IF ~mgr THEN "BLE no disponible" ELSE "none"

\* Which way sendPayload goes before its try block: the client check comes
\* first, the connection check second.
sendPayloadEntry(mgr, conn) ==
    IF ~mgr THEN "BLE no disponible"
    ELSE IF conn = NoDevice THEN "No conectado"
    ELSE "none"

\* sendPayload returns having shown `notice`; `cause` names what threw
\* into its catch block ("none" when nothing did).
SendDone(t, notice, cause) ==
    [t EXCEPT !.pc = "done", !.notice = notice, !.cause = cause]

\* "Enviar": sendPayload up to its first await, with the connected device
\* and the payload text of the render the handler belongs to.  One call is
\* followed at a time (calls share no state: each works on what it
\* captured).
SendPress ==
    /\ mounted
    /\ send.pc \in {"idle", "done"}
    /\ LET entry == sendPayloadEntry(managerRef, connected)
           t == [IdleSend EXCEPT !.mgr = managerRef, !.dev = connected,
                                 !.text = payload]
       IN  /\ send' = IF entry = "none"
                      THEN [t EXCEPT !.pc = "services",
                                     !.servicesCalled = TRUE]
                      ELSE SendDone(t, entry, "none")
           /\ last' = Step("send", entry, FALSE, connected)
    /\ UNCHANGED << platform, mounted, managerRef, screenVars, scanVars,
                    clientConns, destroyed, startPending, conns >>

\* Variant of sendAfterCharacteristics that returns without an alert when
\* no service has a writable characteristic.
sendAfterCharacteristicsSilentEnd(t, services, i) ==
    LET j == firstWritable(services[i]) IN
    IF j # 0 THEN
        IF btoaThrows(t.text)
        THEN SendDone([t EXCEPT !.chr = j], "Error", "btoa")
        ELSE [t EXCEPT !.pc = "write", !.chr = j, !.writes = t.writes + 1,
                       !.data = btoa(t.text)]
    ELSE IF hasNextService(services, i) THEN
        [t EXCEPT !.pc = "characteristics", !.svc = i + 1,
                  !.enumerated = t.enumerated \cup {i + 1}]
    ELSE SendDone(t, "none", "none")

\* The loops of sendPayload from service i on, once the characteristics of
\* service i are known: write to its first writable characteristic (btoa
\* may throw, which the catch reports), else ask for the characteristics
\* of the next service, else report that nothing is writable.
sendAfterCharacteristics(t, services, i) ==
    LET j == firstWritable(services[i]) IN
    IF j # 0 THEN
        IF btoaThrows(t.text)
        THEN SendDone([t EXCEPT !.chr = j], "Error", "btoa")
        ELSE [t EXCEPT !.pc = "write", !.chr = j, !.writes = t.writes + 1,
                       !.data = btoa(t.text)]
    ELSE IF hasNextService(services, i) THEN
        [t EXCEPT !.pc = "characteristics", !.svc = i + 1,
                  !.enumerated = t.enumerated \cup {i + 1}]
    ELSE SendDone(t, "No characteristic", "none")

\* connected.services() settles.
ServicesSettled(ok) ==
    /\ send.pc = "services"
    /\ ok => ~destroyed
    /\ send' = IF ~ok THEN SendDone(send, "Error", "services")
               ELSE IF Len(Gatt(send.dev)) = 0
                    THEN SendDone(send, "No characteristic", "none")
               ELSE [send EXCEPT !.pc = "characteristics", !.svc = 1,
                                 !.enumerated = {1}]
    /\ last' = Step("servicesSettled", send'.notice, FALSE, send.dev)
    /\ UNCHANGED << platform, mounted, managerRef, screenVars, scanVars,
                    clientConns, destroyed, startPending, conns >>

\* service.characteristics() settles.
CharacteristicsSettled(ok) ==
    /\ send.pc = "characteristics"
    /\ ok => ~destroyed
    /\ send' = IF ~ok THEN SendDone(send, "Error", "characteristics")
               ELSE sendAfterCharacteristics(send, Gatt(send.dev), send.svc)
    /\ last' = Step("characteristicsSettled", send'.notice, FALSE, send.dev)
    /\ UNCHANGED << platform, mounted, managerRef, screenVars, scanVars,
                    clientConns, destroyed, startPending, conns >>

\* Variant of WriteSettled that writes once more after a first rejection.
WriteSettledRetries(ok) ==
    /\ send.pc = "write"
    /\ ok => ~destroyed
    /\ send' = IF ok THEN SendDone(send, "Enviado", "none")
               ELSE IF send.writes < 2
                    THEN [send EXCEPT !.writes = send.writes + 1]
               ELSE SendDone(send, "Error", "write")
    /\ last' = Step("writeSettled", send'.notice, FALSE, send.dev)
    /\ UNCHANGED << platform, mounted, managerRef, screenVars, scanVars,
                    clientConns, destroyed, startPending, conns >>

\* manager.writeCharacteristicWithResponseForDevice settles.
WriteSettled(ok) ==
    /\ send.pc = "write"
    /\ ok => ~destroyed
    /\ send' = IF ok THEN SendDone(send, "Enviado", "none")
               ELSE SendDone(send, "Error", "write")
    /\ last' = Step("writeSettled", send'.notice, FALSE, send.dev)
    /\ UNCHANGED << platform, mounted, managerRef, screenVars, scanVars,
                    clientConns, destroyed, startPending, conns >>

(* --------------------------- specifications --------------------------- *)
\* Scanning, connecting, disconnecting, typing and unmounting.
ScreenNext ==
    \/ StartScanPress
    \/ \E g \in PermResults : PermissionResult(g)
    \/ \E dev \in Devs \cup {NoDevice} : Discovery(dev)
    \/ ScanError
    \/ StopScanPress
    \/ Unmount
    \/ \E dev \in Devs : ConnectPress(dev)
    \/ \E t \in BagToSet(conns), ok \in BOOLEAN : ConnectSettled(t, ok)
    \/ \E t \in BagToSet(conns), ok \in BOOLEAN : DiscoverSettled(t, ok)
    \/ DisconnectPress
    \/ \E text \in Payloads : SetPayload(text)

\* sendPayload and its continuations.
SendingNext ==
    \/ SendPress
    \/ \E ok \in BOOLEAN : ServicesSettled(ok)
    \/ \E ok \in BOOLEAN : CharacteristicsSettled(ok)
    \/ \E ok \in BOOLEAN : WriteSettled(ok)

Next == ScreenNext \/ SendingNext

\* The whole screen.
Spec == Init /\ [][Next]_vars

\* The screen with the send button left alone.  sendPayload reads the
\* client reference, the connected device and the payload text and writes
\* no state of the screen or the client, so its steps change nothing the
\* other handlers read.
ScreenSpec == Init /\ [][ScreenNext]_vars

\* The states sendPayload can be invoked in, as far as it can tell them
\* apart: client present or absent, no device connected or one of the
\* devices connected after a scan found it and connectToDevice stored it.
\* Each of them is a state ScreenSpec reaches.
SendInit ==
    /\ platform \in {"android", "ios"}
    /\ mounted = TRUE
    /\ managerRef \in BOOLEAN
    /\ connected \in (IF managerRef THEN Devs \cup {NoDevice} ELSE {NoDevice})
    /\ devices = IF connected = NoDevice THEN <<>> ELSE <<connected>>
    /\ scanning = FALSE
    /\ payload = <<>>
    /\ scanSubscription = IF connected = NoDevice THEN "null" ELSE "removed"
    /\ orphaned = FALSE
    /\ clientScan = FALSE
    /\ clientConns = IF connected = NoDevice THEN {} ELSE {connected}
    /\ destroyed = FALSE
    /\ startPending = 0
    /\ conns = EmptyBag
    /\ send = IdleSend
    /\ last = IF connected = NoDevice
              THEN Step("mount", "none", FALSE, NoDevice)
              ELSE Step("discoverSettled", "Conectado", FALSE, connected)

\* Typing, sending and unmounting, from those states.
SendNext ==
    \/ \E text \in Payloads : SetPayload(text)
    \/ SendingNext
    \/ Unmount

SendSpec == SendInit /\ [][SendNext]_vars

\* SendSpec where every client call that was made settles: the promise of
\* an awaited call is eventually resolved or rejected, and the suspended
\* sendPayload is then resumed by the event loop.
SendFairSpec ==
    /\ SendSpec
    /\ WF_vars(\E ok \in BOOLEAN : ServicesSettled(ok))
    /\ WF_vars(\E ok \in BOOLEAN : CharacteristicsSettled(ok))
    /\ WF_vars(\E ok \in BOOLEAN : WriteSettled(ok))

\* Every state of SendInit is reached by the screen: ScreenSpec violates
\* the negation of each of these.
ReachesSendInit(mgr, dev) ==
    /\ managerRef = mgr /\ connected = dev /\ mounted
    /\ devices = (IF dev = NoDevice THEN <<>> ELSE <<dev>>)
    /\ ~scanning /\ payload = <<>> /\ ~orphaned /\ ~clientScan
    /\ scanSubscription = (IF dev = NoDevice THEN "null" ELSE "removed")
    /\ clientConns = (IF dev = NoDevice THEN {} ELSE {dev})
    /\ ~destroyed /\ startPending = 0 /\ conns = EmptyBag
    /\ send = IdleSend
    /\ last = (IF dev = NoDevice THEN Step("mount", "none", FALSE, NoDevice)
               ELSE Step("discoverSettled", "Conectado", FALSE, dev))

\* The screen whose client could not be constructed on mount (line 56), and
\* every handler a user can reach on it: the device list stays empty, so
\* no row, and with it no connect button, is ever rendered.
AbsentInit == Init /\ ~managerRef

AbsentNext ==
    \/ StartScanPress
    \/ DisconnectPress
    \/ \E text \in Payloads : SetPayload(text)
    \/ SendPress
    \/ Unmount

AbsentSpec == AbsentInit /\ [][AbsentNext]_vars

\* Scanning and connecting where start-scan is pressed only while no
\* connect call is in flight: in every behaviour, each start-scan request
\* either precedes a connect request or follows the end of that call.
StartScanBeforeConnect == conns = EmptyBag /\ StartScanPress

RaceNext ==
    \/ StartScanBeforeConnect
    \/ \E g \in PermResults : PermissionResult(g)
    \/ \E dev \in Devs \cup {NoDevice} : Discovery(dev)
    \/ ScanError
    \/ StopScanPress
    \/ Unmount
    \/ \E dev \in Devs : ConnectPress(dev)
    \/ \E t \in BagToSet(conns), ok \in BOOLEAN : ConnectSettled(t, ok)
    \/ \E t \in BagToSet(conns), ok \in BOOLEAN : DiscoverSettled(t, ok)

RaceSpec == Init /\ [][RaceNext]_vars

(* =============================== claims =============================== *)

\* C1: in every reachable state no two entries of the device list have the
\* same device identifier, whatever sequence of start-scan, stop-scan,
\* connect and discovery events led there.
C1_UniqueDeviceIds ==
    \A i, j \in 1..Len(devices) : devices[i] = devices[j] => i = j

\* Two scans were started without a stop between them (the first
\* subscription was overwritten unremoved), both devices are listed, and
\* the last event reported the device at the head of the list once more.
C1_Witness ==
    /\ orphaned
    /\ Len(devices) = 2
    /\ last.op = "discovery"
    /\ last.dev = devices[1]

\* C2: disconnect, invoked while a device is connected, cancels that
\* device's connection at the client and sets the connected-device state to
\* null, and no fault occurs.  (last.dev is the device that was connected
\* when the button was pressed.)
C2_DisconnectClears ==
    (last.op = "disconnect" /\ last.dev # NoDevice) =>
        /\ connected = NoDevice
        /\ last.dev \notin clientConns
        /\ ~last.fault

\* C3 as stated: send-payload invoked with no device connected always
\* ends by reporting "not connected", with no service enumeration and no
\* write, the case of an absent client included.
C3_NotConnectedAlways ==
    (send.pc = "done" /\ send.dev = NoDevice) =>
        /\ send.notice = "No conectado"
        /\ ~send.servicesCalled
        /\ send.enumerated = {}
        /\ send.writes = 0

\* C3 (amended): send-payload invoked with no device connected never
\* enumerates services or characteristics and never writes; it ends at
\* once, reporting "not connected" when the client is present and "BLE
\* unavailable" when the client is absent.
C3_NotConnected ==
    send.dev = NoDevice =>
        /\ send.pc \in {"idle", "done"}
        /\ ~send.servicesCalled
        /\ send.enumerated = {}
        /\ send.writes = 0
        /\ send.pc = "done" =>
              send.notice = IF send.mgr THEN "No conectado"
                            ELSE "BLE no disponible"
        /\ (send.pc = "done" /\ last.op = "send") => last.alert = send.notice

\* Send was pressed with the client present and no device connected.
C3_Witness ==
    /\ last.op = "send"
    /\ send.pc = "done"
    /\ send.mgr
    /\ send.dev = NoDevice
    /\ last.alert = "No conectado"

\* Positions <<service, characteristic>> of the characteristics of a device
\* flagged writable with or without response, and the first of a set of
\* positions in service order, then characteristic order.
WritablePositions(dev) ==
    UNION { { <<i, j>> : j \in { k \in 1..Len(Gatt(dev)[i]) :
                                  \/ Gatt(dev)[i][k].resp
                                  \/ Gatt(dev)[i][k].noResp } } :
            i \in 1..Len(Gatt(dev)) }
FirstPosition(P) ==
    CHOOSE p \in P :
        \A q \in P : p[1] < q[1] \/ (p[1] = q[1] /\ p[2] <= q[2])

\* C4 as stated: for a connected device with a writable characteristic,
\* send-payload performs exactly one write, to the first such
\* characteristic, and enumerates no service after the one holding it.
C4_ExactlyOneWrite ==
    (send.pc = "done" /\ send.dev # NoDevice
        /\ WritablePositions(send.dev) # {}) =>
        /\ send.writes = 1
        /\ << send.svc, send.chr >> = FirstPosition(WritablePositions(send.dev))
        /\ \A i \in send.enumerated :
              i <= FirstPosition(WritablePositions(send.dev))[1]

\* C4 (amended): for a connected device with a writable characteristic,
\* send-payload performs at most one write, addressed to the first such
\* characteristic in service order then characteristic order, and never
\* enumerates the characteristics of a later service; it performs exactly
\* one write unless an enumeration call fails before that characteristic
\* is reached or the payload text cannot be base64-encoded (a character
\* above U+00FF), and then it performs no write and shows the generic
\* send-error notice.
C4_FirstWritable ==
    (send.dev # NoDevice /\ WritablePositions(send.dev) # {}) =>
        LET first == FirstPosition(WritablePositions(send.dev)) IN
        /\ send.writes <= 1
        /\ \A i \in send.enumerated : i <= first[1]
        /\ send.writes = 1 => << send.svc, send.chr >> = first
        /\ send.pc = "done" =>
              /\ send.notice # "No characteristic"
              /\ IF send.cause \in {"services", "characteristics", "btoa"}
                 THEN send.writes = 0 /\ send.notice = "Error"
                 ELSE send.writes = 1
              /\ send.cause = "btoa" <=> 
                    (btoaThrows(send.text) /\ send.chr # 0)

\* d1 is connected and the text "Man" + U+00FF was sent: one write, to
\* the third characteristic of the second service, of "TWFu/w==".
C4_Witness ==
    /\ send.pc = "done"
    /\ send.dev = "d1"
    /\ send.notice = "Enviado"
    /\ send.writes = 1
    /\ send.svc = 2 /\ send.chr = 3
    /\ send.enumerated = {1, 2}
    /\ send.data = << "T", "W", "F", "u", "/", "w", "=", "=" >>

\* C5 as stated: for a connected device with no writable characteristic,
\* send-payload enumerates every service, performs zero writes and reports
\* "no writable characteristic found".
C5_ReportsNoWritable ==
    (send.pc = "done" /\ send.dev # NoDevice
        /\ WritablePositions(send.dev) = {}) =>
        /\ send.enumerated = 1..Len(Gatt(send.dev))
        /\ send.writes = 0
        /\ send.notice = "No characteristic"

\* C5 (amended): for a connected device with no writable characteristic,
\* send-payload performs zero writes and never shows the success notice;
\* when no enumeration call fails it enumerates every service and reports
\* "no writable characteristic found"; when one fails it shows the generic
\* send-error notice instead.
C5_NoWritable ==
    (send.dev # NoDevice /\ WritablePositions(send.dev) = {}) =>
        /\ send.writes = 0
        /\ send.notice # "Enviado"
        /\ send.pc = "done" =>
              IF send.cause = "none"
              THEN /\ send.enumerated = 1..Len(Gatt(send.dev))
                   /\ send.notice = "No characteristic"
              ELSE /\ send.cause \in {"services", "characteristics"}
                   /\ send.notice = "Error"

\* d2 is connected and a send ran through all three of its services.
C5_Witness ==
    /\ send.pc = "done"
    /\ send.dev = "d2"
    /\ send.notice = "No characteristic"
    /\ send.enumerated = {1, 2, 3}
    /\ send.writes = 0
    /\ last.alert = "No characteristic"

\* C6: whenever connect is invoked with the client available, the scan is
\* stopped (client scan stopped, scanning flag cleared, stored scan
\* subscription removed) before the connection is opened: the step that
\* asks the client for the connection ends with the scan stopped and opens
\* no connection itself, and no connectToDevice call waits for its
\* connection while the scan it found is still running.
C6_ScanStoppedBeforeConnect ==
    [][ /\ \A dev \in Devs :
              (ConnectPress(dev) /\ managerRef) =>
                  /\ ~clientScan'
                  /\ ~scanning'
                  /\ scanSubscription' # "live"
                  /\ clientConns' = clientConns
                  /\ BagCardinality(conns') = BagCardinality(conns) + 1
        /\ \A t \in BagToSet(conns') : ~t.scanLeft
        /\ \A dev \in Devs :
              (dev \in clientConns' /\ dev \notin clientConns) =>
                  \E t \in BagToSet(conns) : t.dev = dev /\ t.pc = "connect"
      ]_vars

\* Connect was pressed while the client was scanning: the scan is stopped
\* and the call waits for its connection.
C6_Witness ==
    /\ last.op = "connect"
    /\ last.scanWas
    /\ last.alert = "none"
    /\ ~clientScan
    /\ ~scanning
    /\ scanSubscription = "removed"
    /\ \E t \in BagToSet(conns) : t.dev = last.dev /\ t.pc = "connect"

\* C7: stop-scan invoked when no scan is active (never started, already
\* stopped, or client absent) raises no error, leaves the device list, the
\* connected device and the payload text unchanged and the scanning flag
\* false, and invoking it twice is the same as invoking it once.  The first
\* conjunct applies stopScan to every reachable state of the mounted screen
\* with no scan active; the second is about the steps in which the screen
\* runs it.
C7_StopScanIdle ==
    [][ /\ (mounted /\ ~clientScan) =>
              LET once == stopScan(Cur) IN
              /\ ~once.threw
              /\ ~once.scanning
              /\ ~once.clientScan
              /\ once.managerRef = managerRef
              /\ stopScan(once) = once
        /\ ( /\ ~clientScan
             /\ \/ StopScanPress
                \/ \E dev \in Devs : ConnectPress(dev) /\ managerRef ) =>
              /\ devices' = devices
              /\ connected' = connected
              /\ payload' = payload
              /\ ~scanning'
              /\ ~clientScan'
              /\ ~last'.fault
              /\ stopScan(Cur') = Cur'
      ]_vars

\* stopScan ran (in a connect) while the client was not scanning, in a
\* state with a non-empty list.
C7_Witness ==
    /\ last.op = "connect"
    /\ ~last.scanWas
    /\ last.alert = "none"
    /\ ~last.fault
    /\ Len(devices) > 0
    /\ ~scanning

\* C8: unmounting removes the stored scan subscription and destroys the
\* client, and the cleanup raises no error whether the client is present
\* or absent and whether a subscription was created or not.
C8_UnmountCleansUp ==
    [][ Unmount =>
            /\ scanSubscription' # "live"
            /\ scanSubscription = "null" => scanSubscription' = "null"
            /\ managerRef => destroyed'
            /\ ~managerRef'
            /\ ~clientScan'
            /\ ~last'.fault
            /\ ~cleanup(Cur).threw
      ]_vars

\* The screen was unmounted while the client was scanning.
C8_Witness ==
    /\ last.op = "unmount"
    /\ last.scanWas
    /\ scanSubscription = "removed"
    /\ destroyed
    /\ ~last.fault

\* C9: at most one connection opened by the screen is open at the client,
\* and a non-null connected-device state references it.
C9_OneConnection ==
    /\ Cardinality(clientConns) <= 1
    /\ connected # NoDevice => clientConns = {connected}

\* C10: start-scan proceeds only if the location or the Bluetooth-scan
\* permission is granted (always where no runtime grant exists); with
\* neither granted, or the request failing, it shows the permissions
\* notice, starts no scan and leaves the list and the flag unchanged.
C10_PermissionGate ==
    [][ /\ \A g \in PermResults :
              PermissionResult(g) =>
                  /\ last'.alert = "none" => (~g.failed /\ (g.loc \/ g.scan))
                  /\ (g.failed \/ (~g.loc /\ ~g.scan)) =>
                        /\ last'.alert = "Permisos"
                        /\ devices' = devices
                        /\ scanning' = scanning
                        /\ scanSubscription' = scanSubscription
                        /\ clientScan' = clientScan
                        /\ orphaned' = orphaned
                  /\ last'.alert = "none" =>
                        /\ scanSubscription' = "live"
                        /\ mounted => (devices' = <<>> /\ scanning')
        /\ (StartScanPress /\ managerRef /\ platform # "android") =>
              /\ last'.alert = "none"
              /\ scanSubscription' = "live" /\ clientScan'
              /\ devices' = <<>> /\ scanning'
        /\ (StartScanPress /\ platform = "android") =>
              UNCHANGED << devices, scanning, scanVars >>
      ]_vars

\* A start-scan was refused for lack of permission while the list still
\* held the devices of an earlier scan.
C10_Witness ==
    /\ last.op = "permission"
    /\ last.alert = "Permisos"
    /\ Len(devices) = 2
    /\ ~scanning
    /\ mounted


\* C11: with the client absent, every attempt of start-scan, connect and
\* send-payload shows the BLE-unavailable notice (one alert, in that step),
\* raises no fault, calls neither the client nor the permission request,
\* and leaves the device list, the scanning flag and the connected device
\* as they were.  (A connect button needs a listed device, and nothing is
\* ever listed without a client: the second conjunct.)
C11_ClientAbsent ==
    /\ [][ (~managerRef /\ (\/ StartScanPress
                            \/ SendPress
                            \/ \E dev \in Devs : ConnectPress(dev)))
           => /\ last'.alert = "BLE no disponible"
              /\ ~last'.fault
              /\ UNCHANGED << devices, scanning, connected, scanVars,
                              clientConns, destroyed, startPending, conns >>
              /\ send'.pc \in {"idle", "done"}
              /\ ~send'.servicesCalled
              /\ send'.enumerated = {}
              /\ send'.writes = 0 ]_vars
    /\ [](mounted /\ ~managerRef => devices = <<>>)

\* Without a client, start-scan was pressed last and a send-payload
\* attempt before it ended with the BLE-unavailable notice.
C11_Witness ==
    /\ mounted /\ ~managerRef
    /\ last.op = "startScan" /\ last.alert = "BLE no disponible"
    /\ send.pc = "done" /\ send.notice = "BLE no disponible"


\* C12 (first half): a start-scan that got past the client and permission
\* checks, on the mounted screen, clears the device list and sets the
\* scanning flag.
\* C12 (second half): every other step leaves the list as it was or appends
\* one identifier at its end, and appends exactly when a discovery event
\* reports an identifier the list does not hold; so, between two clears,
\* the list is the distinct identifiers reported, in order of first
\* arrival, and stop-scan, connect, the settling of its calls and
\* send-payload never change it.
C12_ListOnlyAppends ==
    [][ IF /\ mounted
           /\ \/ StartScanPress /\ managerRef /\ platform # "android"
              \/ \E g \in PermResults :
                    PermissionResult(g) /\ permissionsGranted(g)
        THEN devices' = <<>> /\ scanning'
        ELSE IF \E dev \in Devs :
                    Discovery(dev) /\ mounted /\ dev \notin Range(devices)
        THEN devices' = Append(devices, last'.dev)
        ELSE devices' = devices ]_vars

\* Since the last clear d2 was reported first, then d1, and the event just
\* delivered reported d2 again: the list is d2, d1.
C12_Witness ==
    /\ scanning
    /\ devices = << "d2", "d1" >>
    /\ last.op = "discovery" /\ last.dev = "d2"


\* C13: the connected device changes only in the step in which discovery
\* succeeds for a connect call whose connection is open at the client, and
\* that step shows the success notice; when the connection or the
\* discovery fails, that connect call ends there with the generic error
\* notice as its only notice, no fault leaves the handler, and the
\* connected device stays as it was.
C13_ConnectedOnlyOnSuccess ==
    [][ /\ connected' # connected =>
              \E t \in BagToSet(conns) :
                  /\ DiscoverSettled(t, TRUE)
                  /\ t.pc = "discover" /\ t.dev = connected'
                  /\ t.dev \in clientConns
                  /\ last'.alert = "Conectado"
        /\ \A t \in BagToSet(conns) :
              (ConnectSettled(t, FALSE) \/ DiscoverSettled(t, FALSE)) =>
                  /\ connected' = connected
                  /\ last'.alert = "Error"
                  /\ ~last'.fault
                  /\ conns' = conns (-) One(t) ]_vars

\* d1 is connected, and a later connect to d2 has just failed in
\* discovery, after its connection was opened: d1 is still the connected
\* device.
C13_Witness ==
    /\ connected = "d1"
    /\ last.op = "discoverSettled" /\ last.alert = "Error" /\ last.dev = "d2"
    /\ "d2" \in clientConns


\* C14: when connected.services(), service.characteristics() or the write
\* rejects during send-payload, the call ends in that step: the rejection
\* is caught (no fault), the generic send-error notice is shown, and not
\* the success or the no-writable-characteristic notice, nothing more is
\* enumerated or written (a call that ended stays as it is until the next
\* press of the send button), and the connected device is unchanged.
C14_SendFailureCaught ==
    /\ [][ (\/ ServicesSettled(FALSE)
            \/ CharacteristicsSettled(FALSE)
            \/ WriteSettled(FALSE))
           => /\ send'.pc = "done"
              /\ send'.notice = "Error" /\ last'.alert = "Error"
              /\ ~last'.fault
              /\ send'.writes = send.writes
              /\ send'.enumerated = send.enumerated
              /\ connected' = connected ]_vars
    /\ [][ (send.pc = "done" /\ send' # send) => SendPress ]_vars
    /\ [](send.pc = "done"
            /\ send.cause \in {"services", "characteristics", "write"}
          => /\ send.notice = "Error"
             /\ send.writes = (IF send.cause = "write" THEN 1 ELSE 0))

\* The write to the first writable characteristic of d1 was rejected: the
\* call has ended with the generic notice after that one write.
C14_Witness ==
    /\ send.pc = "done" /\ send.cause = "write" /\ send.dev = "d1"
    /\ send.notice = "Error" /\ send.writes = 1
    /\ last.op = "writeSettled" /\ last.alert = "Error"
    /\ connected = "d1"


\* C15: when the scan callback is called with an error, the scanning flag
\* is false afterwards, no alert is shown, and the device list is the one
\* before the event.
C15_ScanErrorQuiet ==
    [][ ScanError => /\ ~scanning'
                     /\ last'.alert = "none" /\ ~last'.fault
                     /\ devices' = devices ]_vars

\* A scan that had listed both devices has just failed: the flag is down
\* and both are still listed.
C15_Witness ==
    /\ mounted
    /\ last.op = "scanError"
    /\ ~scanning
    /\ Len(devices) = 2


\* C16: once the screen is unmounted no scan runs on the client and no
\* scan subscription the screen created is left un-removed (neither the
\* one the ref holds nor one the ref lost), whatever the interleaving.
C16_UnmountEndsScanning ==
    ~mounted => /\ ~clientScan
                /\ scanSubscription # "live"
                /\ ~orphaned


\* C17: when every start-scan was requested before the connect (none is
\* requested while a connect call is in flight), then in the state in
\* which that connect has just stored the connected device the scanning
\* flag is false and the client runs no scan.
C17_ConnectedNotScanning ==
    (mounted /\ last.op = "discoverSettled" /\ last.alert = "Conectado")
        => ~scanning /\ ~clientScan


\* C18: on the mounted screen, whenever the scanning flag is false no scan
\* subscription the screen created is still live (neither the one the ref
\* holds nor one it lost when a second start-scan overwrote it), and no
\* discovery event can be delivered.
C18_FlagAgreesWithSubscription ==
    (mounted /\ ~scanning) => /\ scanSubscription # "live"
                              /\ ~orphaned
                              /\ ~Listening


\* The notices sendPayload can show.
SendNotices ==
    { "BLE no disponible", "No conectado", "Enviado", "No characteristic",
      "Error" }

\* C19: when every client call settles, a send-payload call that is
\* suspended on one eventually ends; a call that ended has shown one of
\* the five notices and made at most one write, and it shows "sent" only
\* in the step in which its one write succeeded; every step of the call
\* shows a notice exactly when it is the step that ends the call, so the
\* call shows exactly one.
C19_SendTerminates ==
    /\ (send.pc \in {"services", "characteristics", "write"})
            ~> (send.pc = "done")
    /\ [](send.pc = "done" => /\ send.notice \in SendNotices
                              /\ send.writes <= 1
                              /\ send.notice = "Enviado" =>
                                    send.writes = 1 /\ send.cause = "none")
    /\ [][ (\/ SendPress
            \/ \E ok \in BOOLEAN : ServicesSettled(ok)
            \/ \E ok \in BOOLEAN : CharacteristicsSettled(ok)
            \/ \E ok \in BOOLEAN : WriteSettled(ok))
           => /\ last'.alert = send'.notice
              /\ ~last'.fault
              /\ (send'.pc = "done") <=> (last'.alert \in SendNotices)
              /\ (send'.pc # "done") <=> (last'.alert = "none")
              /\ last'.alert = "Enviado" =>
                    send.pc = "write" /\ WriteSettled(TRUE) ]_vars

\* The screen was unmounted while sendPayload waited for the
\* characteristics of the second service of d2; the call on the destroyed
\* client was rejected and sendPayload ended with the generic notice.
C19_Witness ==
    /\ ~mounted
    /\ send.pc = "done" /\ send.dev = "d2"
    /\ send.cause = "characteristics" /\ send.svc = 2
    /\ send.notice = "Error" /\ send.writes = 0
    /\ last.op = "characteristicsSettled"

====
